---- MODULE Spec2Model ----
(***************************************************************************)
(* Model of the request drivers of ai_caller (src/aicaller/api/api.py):    *)
(* the synchronous driver API.process_request_file with the three          *)
(* process_single_request adapters (OpenAPI, OllamaAPI, GoogleGenAIAPI),   *)
(* and the batch orchestrator batch_request_and_wait with read_batch_file, *)
(* batch_request and wait_for_batch_request, and the batch methods of      *)
(* OllamaAPI; and of the legacy orchestrator API.batch_request_and_wait    *)
(* of src/openaiapicaller/api.py.                                          *)
(*                                                                         *)
(* The provider (the vendor SDK client) is the environment: every client   *)
(* call answers with one of the outcomes its SDK can produce, chosen       *)
(* nondeterministically.  Every client call, every print to stderr and     *)
(* every time.sleep is appended to `log`, in program order.                *)
(***************************************************************************)
EXTENDS Integers, Sequences, FiniteSets, TLC

VARIABLES
    api,        \* the adapter class in use
    op,         \* the method of the adapter that was called
    source,     \* the request file: a sequence of lines
    skip,       \* process_request_file's skip argument (None or a set of ids)
    interval,   \* self.process_requests_interval
    pc,         \* position of the running operation
    pos,        \* 1-based number of the line the file generator is at
    outputs,    \* the APIOutputs yielded / the list `content` returned
    raised,     \* the exception that left the operation (None while there is none)
    log,        \* client calls, prints and sleeps, in program order
    retries,    \* transient provider answers so far (bounds the model only)
    attempt,    \* iterations of batch_request_and_wait's while loop started
    batch_samples, \* the Submitted-Request Index of the current attempt
    model_name, \* batch_request's model_name, returned by convert_batch_file
    response,   \* the job batch_request returned, named by the number of the
                \* attempt that created it (0 while there is none)
    status,     \* batch.status / batch_job.state.name last retrieved
    file_content   \* the result artifact fetched (None before the fetch)

vars == <<api, op, source, skip, interval, pc, pos, outputs, raised, log, retries,
          attempt, batch_samples, model_name, response, status, file_content>>

---------------------------------------------------------------------------
(* Bounds of the model *)

\* longest request file
MaxLen == 3
\* transient provider answers (rate-limit, 503, swallowed error, quota,
\* non-terminal status) in one run
MaxRetries == 2
\* longest result artifact
MaxRows == 2

---------------------------------------------------------------------------
(* Values *)

\* Python's None; Some(x) is a value that is set
None == <<>>
Some(x) == <<x>>
IsSet(o) == o # None

\* A line of the request file that APIRequest.model_validate_json rejects
Malformed == [custom_id |-> "", structured |-> FALSE, model |-> "", valid |-> FALSE]

\* The well-formed requests the files are drawn from: custom_id,
\* body.structured and body.model are the fields the drivers read
Request(id, s, m) == [custom_id |-> id, structured |-> s, model |-> m, valid |-> TRUE]
Requests == { Request("a", TRUE, "m1"), Request("b", FALSE, "m1"), Request("c", TRUE, "m2") }
Ids == { r.custom_id : r \in Requests }
Lines == Requests \cup {Malformed}
\* the synchronous driver never reads body.model: its files hold two of the requests
FileLines == { r \in Requests : r.model = "m1" } \cup {Malformed}
FileIds == { r.custom_id : r \in FileLines \ {Malformed} }

RECURSIVE SeqsUpTo(_, _)
SeqsUpTo(S, n) ==
    IF n = 0 THEN {<<>>}
    ELSE LET shorter == SeqsUpTo(S, n - 1)
         IN shorter \cup { Append(s, x) : s \in {t \in shorter : Len(t) = n - 1}, x \in S }

Sources == SeqsUpTo(Lines, MaxLen)
FileSources == SeqsUpTo(FileLines, MaxLen)
SkipSets == {None} \cup { Some(S) : S \in {T \in SUBSET FileIds : Cardinality(T) <= 1} }
Intervals == {0, 1}
Adapters == {"OpenAPI", "OllamaAPI", "GoogleGenAIAPI"}
BatchAdapters == {"OpenAPI", "GoogleGenAIAPI"}
\* the batch methods of an adapter
BatchOperations == {"batch_request", "batch_request_and_wait", "wait_for_batch_request"}

\* One entry of the log
Ev(kind, what, n) == [kind |-> kind, what |-> what, n |-> n]

\* An exception: its class and its message, the message as the pieces it is
\* concatenated / formatted from
Err(type, message) == [type |-> type, message |-> message]
\* Python's `piece in message`
Mentions(e, piece) == \E i \in DOMAIN e.message : e.message[i] = piece

\* the positions of log l that hold an entry of this kind
Entries(l, kind) == { i \in DOMAIN l : l[i].kind = kind }
\* ... of this kind, made for item / attempt n
EntriesOf(l, kind, n) == { i \in Entries(l, kind) : l[i].n = n }

\* a client call and what it answered (returned or raised)
Call(l, method, outcome, n) ==
    l \o << Ev("call", method, n), Ev("answer", outcome, n) >>

---------------------------------------------------------------------------
(* APIOutput *)

\* APIOutput(custom_id=..., response=APIResponse*(body=..., structured=...), error=None)
SuccessOutput(custom_id, body, structured) ==
    [custom_id |-> custom_id,
     response  |-> Some([body |-> body, structured |-> structured]),
     error     |-> None]

\* (mutant) the error output keeps a response as well
ErrorOutputBoth(custom_id, e) ==
    [custom_id |-> custom_id,
     response  |-> Some([body |-> "", structured |-> FALSE]),
     error     |-> Some(e)]

\* APIOutput(custom_id=..., response=None, error=...)
ErrorOutput(custom_id, e) ==
    [custom_id |-> custom_id,
     response  |-> None,
     error     |-> Some(e)]

---------------------------------------------------------------------------
(* The synchronous driver: API.process_request_file *)

\* what self.client.chat.completions.create can do: return, raise
\* RateLimitError, raise another APIError, raise something that is no APIError
OpenAIOutcomes == {"ok", "RateLimitError", "APIError", "Exception"}
\* what self.client.chat can do: return or raise
OllamaOutcomes == {"ok", "Exception"}
\* what self.client.models.generate_content can do: return, raise
\* genai_errors.APIError with code 503, raise it with another code, raise
\* something that is no genai_errors.APIError
GoogleOutcomes == {"ok", "genai.APIError(503)", "genai.APIError", "Exception"}

InitFile ==
    /\ api \in Adapters
    /\ op = "process_request_file"
    /\ source \in FileSources
    /\ skip \in SkipSets
    /\ interval \in Intervals
    /\ pc = "next"
    /\ pos = 1
    /\ outputs = <<>>
    /\ raised = None
    /\ log = <<>>
    /\ retries = 0
    /\ attempt = 0
    /\ batch_samples = <<>>
    /\ model_name = None
    /\ response = 0
    /\ status = ""
    /\ file_content = None

batchVars == <<attempt, batch_samples, model_name, response, status, file_content>>
inputVars == <<api, op, source, skip, interval>>

\* (mutant) the skip set is ignored
SkippedNever(record) == FALSE

\* `skip is not None and record.custom_id in skip`
Skipped(record) == skip # None /\ record.custom_id \in skip[1]

\* `i > 0 and self.process_requests_interval > 0`, i the 0-based line number
Paced(i) == i > 0 /\ interval > 0

\* (mutant) a line that does not validate is passed over
ReadRequestLenient ==
    /\ pc = "next"
    /\ IF pos > Len(source)
       THEN /\ pc' = "done"
            /\ UNCHANGED <<pos, raised, log>>
       ELSE IF ~source[pos].valid \/ Skipped(source[pos])
       THEN /\ pos' = pos + 1
            /\ UNCHANGED <<pc, raised, log>>
       ELSE /\ log' = IF Paced(pos - 1)
                      THEN Append(log, Ev("sleep_pacing", "process_requests_interval", pos))
                      ELSE log
            /\ pc' = "call"
            /\ UNCHANGED <<pos, raised>>
    /\ UNCHANGED <<outputs, retries>>
    /\ UNCHANGED inputVars
    /\ UNCHANGED batchVars

\* One iteration of the for loop of process_request_file up to the call of
\* process_single_request: read the next line (read_request_file), skip it or
\* pace
ReadRequest ==
    /\ pc = "next"
    /\ IF pos > Len(source)
       THEN /\ pc' = "done"
            /\ UNCHANGED <<pos, raised, log>>
       ELSE IF ~source[pos].valid
       THEN /\ pc' = "raised"
            /\ raised' = Some(Err("ValidationError", <<"invalid APIRequest">>))
            /\ UNCHANGED <<pos, log>>
       ELSE IF Skipped(source[pos])
       THEN /\ pos' = pos + 1
            /\ UNCHANGED <<pc, raised, log>>
       ELSE /\ log' = IF Paced(pos - 1)
                      THEN Append(log, Ev("sleep_pacing", "process_requests_interval", pos))
                      ELSE log
            /\ pc' = "call"
            /\ UNCHANGED <<pos, raised>>
    /\ UNCHANGED <<outputs, retries>>
    /\ UNCHANGED inputVars
    /\ UNCHANGED batchVars

\* process_single_request returns out, process_request_file yields it
Yield(out) ==
    /\ outputs' = Append(outputs, out)
    /\ pos' = pos + 1
    /\ pc' = "next"
    /\ UNCHANGED raised

\* (mutant) the retry loop prints and does not sleep
BackoffNoSleep(l, why, n) ==
    l \o << Ev("print", why, n) >>

\* the backoff of a retry loop: print to stderr, time.sleep(self.pool_interval)
Backoff(l, why, n) ==
    l \o << Ev("print", why, n), Ev("sleep_backoff", "pool_interval", n) >>

\* OpenAPI.process_single_request: one turn of its while loop
OpenAPIProcessSingleRequest ==
    /\ pc = "call"
    /\ api = "OpenAPI"
    /\ \E outcome \in OpenAIOutcomes :
         LET called == Call(log, "chat.completions.create", outcome, pos)
             request == source[pos]
         IN CASE outcome = "ok" ->
                   /\ log' = called
                   /\ Yield(SuccessOutput(request.custom_id, "chat.completion", request.structured))
                   /\ UNCHANGED retries
              [] outcome = "RateLimitError" ->
                   /\ retries < MaxRetries
                   /\ retries' = retries + 1
                   /\ log' = Backoff(called, "Rate limit reached", pos)
                   /\ UNCHANGED <<pc, pos, outputs, raised>>
              [] outcome = "APIError" ->
                   /\ log' = called
                   /\ Yield(ErrorOutput(request.custom_id, "APIError"))
                   /\ UNCHANGED retries
              [] outcome = "Exception" ->
                   /\ log' = called
                   /\ pc' = "raised"
                   /\ raised' = Some(Err("Exception", <<"chat.completions.create">>))
                   /\ UNCHANGED <<pos, outputs, retries>>
    /\ UNCHANGED inputVars
    /\ UNCHANGED batchVars

\* OllamaAPI.process_single_request
OllamaProcessSingleRequest ==
    /\ pc = "call"
    /\ api = "OllamaAPI"
    /\ \E outcome \in OllamaOutcomes :
         LET request == source[pos]
         IN /\ log' = Call(log, "chat", outcome, pos)
            /\ IF outcome = "ok"
               THEN Yield(SuccessOutput(request.custom_id, "chat", request.structured))
               ELSE Yield(ErrorOutput(request.custom_id, "Exception"))
    /\ UNCHANGED retries
    /\ UNCHANGED inputVars
    /\ UNCHANGED batchVars

\* GoogleGenAIAPI.process_single_request: one turn of its while loop
GoogleProcessSingleRequest ==
    /\ pc = "call"
    /\ api = "GoogleGenAIAPI"
    /\ \E outcome \in GoogleOutcomes :
         LET called == Call(log, "models.generate_content", outcome, pos)
             request == source[pos]
         IN CASE outcome = "ok" ->
                   /\ log' = called
                   /\ Yield(SuccessOutput(request.custom_id, "generate_content", request.structured))
                   /\ UNCHANGED retries
              [] outcome = "genai.APIError(503)" ->
                   /\ retries < MaxRetries
                   /\ retries' = retries + 1
                   /\ log' = Backoff(called, "Got 503 UNAVAILABLE error", pos)
                   /\ UNCHANGED <<pc, pos, outputs, raised>>
              [] outcome = "genai.APIError" ->
                   \* caught by the inner except, whose body does nothing
                   \* for a code other than 503: the while loop goes on
                   /\ retries < MaxRetries
                   /\ retries' = retries + 1
                   /\ log' = called
                   /\ UNCHANGED <<pc, pos, outputs, raised>>
              [] outcome = "Exception" ->
                   /\ log' = called
                   /\ Yield(ErrorOutput(request.custom_id, "Exception"))
                   /\ UNCHANGED retries
    /\ UNCHANGED inputVars
    /\ UNCHANGED batchVars

NextFile ==
    \/ ReadRequest
    \/ OpenAPIProcessSingleRequest
    \/ OllamaProcessSingleRequest
    \/ GoogleProcessSingleRequest

SpecFile == InitFile /\ [][NextFile]_vars

---------------------------------------------------------------------------
(* The batch orchestrator: batch_request_and_wait *)

\* the result of a function that returns `value` or raises `err`
Returned(value) == [ok |-> TRUE, value |-> value, err |-> Err("", <<>>)]
Raised(err) == [ok |-> FALSE, value |-> <<>>, err |-> err]

\* the substring batch_request_and_wait looks for in e.message
QuotaText == "Enqueued token limit reached for"

\* (mutant) a repeated custom_id overwrites the earlier entry
RECURSIVE ReadLinesOverwrite(_, _)
ReadLinesOverwrite(lines, samples) ==
    IF lines = <<>> THEN Returned(samples)
    ELSE LET record == Head(lines)
         IN IF ~record.valid
            THEN Raised(Err("ValidationError", <<"invalid APIRequest">>))
            ELSE ReadLinesOverwrite(Tail(lines),
                     (record.custom_id :> record) @@ samples)

\* the loop of read_batch_file over the lines not yet read, `samples` the
\* dict built so far
RECURSIVE ReadLines(_, _)
ReadLines(lines, samples) ==
    IF lines = <<>> THEN Returned(samples)
    ELSE LET record == Head(lines)
         IN IF ~record.valid
            THEN Raised(Err("ValidationError", <<"invalid APIRequest">>))
            ELSE IF record.custom_id \in DOMAIN samples
            THEN Raised(Err("ValueError", <<"Duplicate custom_id found: ", record.custom_id>>))
            ELSE ReadLines(Tail(lines), (record.custom_id :> record) @@ samples)

\* (mutant) lines that do not validate are left out of the index
read_batch_file_lenient(path_to_file) ==
    LET Valid(record) == record.valid
    IN ReadLines(SelectSeq(path_to_file, Valid), <<>>)

\* OpenAPI.read_batch_file / GoogleGenAIAPI.read_batch_file (the same code)
read_batch_file(path_to_file) == ReadLines(path_to_file, <<>>)

\* (mutant) the models of the requests are not compared
RECURSIVE GoogleConvertLinesUnchecked(_, _, _)
GoogleConvertLinesUnchecked(lines, first_model, output) ==
    IF lines = <<>> THEN Returned([file |-> output, model |-> first_model])
    ELSE LET record == Head(lines)
         IN IF ~record.valid
            THEN Raised(Err("ValidationError", <<"invalid APIRequest">>))
            ELSE GoogleConvertLinesUnchecked(Tail(lines),
                     IF first_model = None THEN Some(record.model) ELSE first_model,
                     Append(output, [key |-> record.custom_id]))

\* the loop of GoogleGenAIAPI.convert_batch_file over the lines not yet read
RECURSIVE GoogleConvertLines(_, _, _)
GoogleConvertLines(lines, first_model, output) ==
    IF lines = <<>> THEN Returned([file |-> output, model |-> first_model])
    ELSE LET record == Head(lines)
         IN IF ~record.valid
            THEN Raised(Err("ValidationError", <<"invalid APIRequest">>))
            ELSE IF first_model # None /\ record.model # first_model[1]
            THEN Raised(Err("ValueError",
                     <<"All requests in a batch must use the same model. Found ",
                       record.model, ", expected ", first_model[1]>>))
            ELSE GoogleConvertLines(Tail(lines),
                     IF first_model = None THEN Some(record.model) ELSE first_model,
                     Append(output, [key |-> record.custom_id]))

\* the loop of OpenAPI.convert_batch_file over the lines not yet read
RECURSIVE OpenAPIConvertLines(_, _)
OpenAPIConvertLines(lines, output) ==
    IF lines = <<>> THEN Returned([file |-> output, model |-> None])
    ELSE LET record == Head(lines)
         IN IF ~record.valid
            THEN Raised(Err("ValidationError", <<"invalid APIRequest">>))
            ELSE OpenAPIConvertLines(Tail(lines), Append(output, [key |-> record.custom_id]))

\* convert_batch_file of the adapter in use
convert_batch_file(path_to_file) ==
    IF api = "GoogleGenAIAPI"
    THEN GoogleConvertLines(path_to_file, None, <<>>)
    ELSE OpenAPIConvertLines(path_to_file, <<>>)

\* A row of the result artifact: whether json.loads accepts the line, the
\* id it names (custom_id / key), and what it carries:
\*   "response"         a response body the provider schema accepts
\*   "invalid_response" a response GenerateContentResponse.model_validate rejects
\*   "no_response"      no response (null or absent)
\*   "error"            an inline error object
Row(json, id, kind) == [json |-> json, id |-> id, kind |-> kind]
Garbage == Row(FALSE, "", "")
\* "x" is an id no request carries
RowIds == {"a", "b", "x"}
OpenAIRows == {Garbage} \cup { Row(TRUE, id, "response") : id \in RowIds }
                        \cup { Row(TRUE, "a", "no_response") }
GoogleRows == {Garbage} \cup { Row(TRUE, id, "response") : id \in RowIds }
                        \cup { Row(TRUE, "a", k) : k \in {"no_response", "invalid_response", "error"} }

\* (mutant) the structured flag of the request is not looked up
RECURSIVE OpenAPIDecodeUnstructured(_, _, _)
OpenAPIDecodeUnstructured(lines, samples, content) ==
    IF lines = <<>> THEN Returned(content)
    ELSE LET record == Head(lines)
         IN IF ~record.json
            THEN Raised(Err("JSONDecodeError", <<"Expecting value">>))
            ELSE IF record.kind # "response"
            THEN Raised(Err("TypeError", <<"'NoneType' object is not subscriptable">>))
            ELSE OpenAPIDecodeUnstructured(Tail(lines), samples,
                     Append(content, SuccessOutput(record.id, "body", FALSE)))

\* the decode loop of OpenAPI.batch_request_and_wait over the lines of
\* file_content not yet decoded
RECURSIVE OpenAPIDecode(_, _, _)
OpenAPIDecode(lines, samples, content) ==
    IF lines = <<>> THEN Returned(content)
    ELSE LET record == Head(lines)
         IN IF ~record.json
            THEN Raised(Err("JSONDecodeError", <<"Expecting value">>))
            ELSE IF record.kind # "response"
            THEN Raised(Err("TypeError", <<"'NoneType' object is not subscriptable">>))
            ELSE IF record.id \notin DOMAIN samples
            THEN Raised(Err("KeyError", <<record.id>>))
            ELSE OpenAPIDecode(Tail(lines), samples,
                     Append(content, SuccessOutput(record.id, "body", samples[record.id].structured)))

\* the decode loop of GoogleGenAIAPI.batch_request_and_wait
RECURSIVE GoogleDecode(_, _, _)
GoogleDecode(lines, samples, content) ==
    IF lines = <<>> THEN Returned(content)
    ELSE LET raw_record == Head(lines)
             key == raw_record.id
         IN IF ~raw_record.json
            THEN Raised(Err("JSONDecodeError", <<"Expecting value">>))
            ELSE IF raw_record.kind = "error"
            THEN GoogleDecode(Tail(lines), samples,
                     Append(content, ErrorOutput(key, "error.message")))
            ELSE IF raw_record.kind = "no_response"
            THEN Raised(Err("KeyError", <<"response">>))
            ELSE IF raw_record.kind = "invalid_response"
            THEN GoogleDecode(Tail(lines), samples,
                     Append(content, ErrorOutput(key, "Failed to parse response for key")))
            ELSE IF key \notin DOMAIN samples
            THEN Raised(Err("KeyError", <<key>>))
            ELSE GoogleDecode(Tail(lines), samples,
                     Append(content, SuccessOutput(key, "response", samples[key].structured)))

\* (mutant) the rows are decoded last to first
DecodeReversed(lines, samples) ==
    LET reversed == [ i \in 1..Len(lines) |-> lines[Len(lines) + 1 - i] ]
    IN IF api = "GoogleGenAIAPI"
       THEN GoogleDecode(reversed, samples, <<>>)
       ELSE OpenAPIDecode(reversed, samples, <<>>)

\* the decode loop of the adapter in use
Decode(lines, samples) ==
    IF api = "GoogleGenAIAPI"
    THEN GoogleDecode(lines, samples, <<>>)
    ELSE OpenAPIDecode(lines, samples, <<>>)

\* the exceptions a client call of the batch API can raise, by the name
\* they carry in the log: the openai client raises openai.APIError (its
\* message holding the quota text or not) or something else; the Google
\* client raises genai_errors.APIError, which is no openai.APIError
OpenAIErrors == {"APIError(quota)", "APIError", "Exception"}
GoogleErrors == {"genai.APIError(quota)", "genai.APIError"}
ClientErrors == IF api = "GoogleGenAIAPI" THEN GoogleErrors ELSE OpenAIErrors

\* the exception object behind a name
ClientError(name) ==
    CASE name = "APIError(quota)" -> Err("APIError", <<QuotaText, " organization">>)
      [] name = "APIError" -> Err("APIError", <<"Invalid request">>)
      [] name = "genai.APIError(quota)" -> Err("genai.APIError", <<QuotaText, " model">>)
      [] name = "genai.APIError" -> Err("genai.APIError", <<"INVALID_ARGUMENT">>)
      [] OTHER -> Err("Exception", <<name>>)

\* the labels batches.retrieve / batches.get report.  batch.status is the
\* status field of openai.types.batch.Batch (imported by api.py), which
\* spells the canceled state "cancelled"; "canceled" is the spelling
\* wait_for_batch_request tests for; "in_progress" stands for the labels of
\* the states before the terminal ones.  batch_job.state.name is the name of
\* a genai JobState.
OpenAIStatuses == {"in_progress", "completed", "failed", "canceled", "cancelled", "expired"}
GoogleStatuses == {"JOB_STATE_RUNNING", "JOB_STATE_SUCCEEDED", "JOB_STATE_FAILED",
                   "JOB_STATE_CANCELLED", "JOB_STATE_EXPIRED"}
Statuses == IF api = "GoogleGenAIAPI" THEN GoogleStatuses ELSE OpenAIStatuses
\* `batch.status == "completed"` / `batch_job.state.name == 'JOB_STATE_SUCCEEDED'`
Succeeded(st) == IF api = "GoogleGenAIAPI" THEN st = "JOB_STATE_SUCCEEDED" ELSE st = "completed"
\* `batch.status in {"failed", "canceled", "expired"}`
OpenAIFailed == {"failed", "canceled", "expired"}
\* completed_states without 'JOB_STATE_SUCCEEDED'
GoogleFailed == {"JOB_STATE_FAILED", "JOB_STATE_CANCELLED", "JOB_STATE_EXPIRED"}
Failed(st) == IF api = "GoogleGenAIAPI" THEN st \in GoogleFailed ELSE st \in OpenAIFailed

\* OpenAPI and GoogleGenAIAPI enter batch_request_and_wait at the top of its
\* while loop; OllamaAPI enters one of its three batch methods
InitBatch ==
    /\ \/ /\ api \in BatchAdapters
          /\ op = "batch_request_and_wait"
          /\ pc = "index"
       \/ /\ api = "OllamaAPI"
          /\ op \in BatchOperations
          /\ pc = "entry"
    /\ source \in Sources
    /\ skip = None
    /\ interval = 0
    /\ pos = 1
    /\ outputs = <<>>
    /\ raised = None
    /\ log = <<>>
    /\ retries = 0
    /\ attempt = 0
    /\ batch_samples = <<>>
    /\ model_name = None
    /\ response = 0
    /\ status = ""
    /\ file_content = None

\* the exception e leaves the operation
Propagate(e) ==
    /\ pc' = "raised"
    /\ raised' = Some(e)
    /\ UNCHANGED retries

\* (mutant) the retry keeps the index and restarts at batch_request
ExceptCached(l, e) ==
    IF e.type = "APIError" /\ Mentions(e, QuotaText)
    THEN /\ retries < MaxRetries
         /\ retries' = retries + 1
         /\ log' = Backoff(l, "Enqueued token limit reached", attempt)
         /\ pc' = "convert"
         /\ UNCHANGED raised
    ELSE /\ log' = l
         /\ Propagate(e)

\* (mutant) every APIError is retried, whatever its message
ExceptRetryAny(l, e) ==
    IF e.type = "APIError"
    THEN /\ retries < MaxRetries
         /\ retries' = retries + 1
         /\ log' = Backoff(l, "Enqueued token limit reached", attempt)
         /\ pc' = "index"
         /\ UNCHANGED raised
    ELSE /\ log' = l
         /\ Propagate(e)

\* (mutant) the handler cancels the job before it retries or re-raises
ExceptCancelJob(l, e) ==
    IF e.type = "APIError" /\ Mentions(e, QuotaText)
    THEN /\ retries < MaxRetries
         /\ retries' = retries + 1
         /\ log' = Backoff(Call(l, "batches.cancel", "ok", attempt),
                           "Enqueued token limit reached", attempt)
         /\ pc' = "index"
         /\ UNCHANGED raised
    ELSE /\ log' = Call(l, "batches.cancel", "ok", attempt)
         /\ Propagate(e)

\* `except APIError as e` of batch_request_and_wait, reached by exception e
\* with the log at l: back to the top of the while loop after the backoff
\* for the quota message, else `raise e`; an exception that is no
\* openai.APIError passes the handler by
Except(l, e) ==
    IF e.type = "APIError" /\ Mentions(e, QuotaText)
    THEN /\ retries < MaxRetries
         /\ retries' = retries + 1
         /\ log' = Backoff(l, "Enqueued token limit reached", attempt)
         /\ pc' = "index"
         /\ UNCHANGED raised
    ELSE /\ log' = l
         /\ Propagate(e)

\* top of the while loop: batch_samples = self.read_batch_file(path_to_file)
BatchIndex ==
    /\ pc = "index"
    /\ attempt' = attempt + 1
    /\ LET l == Append(log, Ev("read", "read_batch_file", attempt + 1))
           r == read_batch_file(source)
       IN IF r.ok
          THEN /\ batch_samples' = r.value
               /\ log' = l
               /\ pc' = "convert"
               /\ UNCHANGED <<raised, retries>>
          ELSE /\ Except(l, r.err)
               /\ UNCHANGED batch_samples
    /\ UNCHANGED <<outputs, pos, model_name, response, status, file_content>>
    /\ UNCHANGED inputVars

\* batch_request: converted_batch, model_name = self.convert_batch_file(path_to_file)
BatchConvert ==
    /\ pc = "convert"
    /\ LET l == Append(log, Ev("read", "convert_batch_file", attempt))
           r == convert_batch_file(source)
       IN IF r.ok
          THEN /\ model_name' = r.value.model
               /\ log' = l
               /\ pc' = "upload"
               /\ UNCHANGED <<raised, retries>>
          ELSE /\ Except(l, r.err)
               /\ UNCHANGED model_name
    /\ UNCHANGED <<outputs, pos, attempt, batch_samples, response, status, file_content>>
    /\ UNCHANGED inputVars

\* a client call of the batch API: on return the operation goes on at `then`
ClientCall(method, then) ==
    /\ \E outcome \in {"ok"} \cup ClientErrors :
         LET l == Call(log, method, outcome, attempt)
         IN IF outcome = "ok"
            THEN /\ log' = l
                 /\ pc' = then
                 /\ UNCHANGED <<raised, retries>>
            ELSE Except(l, ClientError(outcome))
    /\ UNCHANGED <<outputs, pos>>
    /\ UNCHANGED inputVars
    /\ UNCHANGED batchVars

\* (mutant) the job is polled without having been created
BatchUploadThenPoll ==
    /\ pc = "upload"
    /\ ClientCall(IF api = "GoogleGenAIAPI" THEN "files.upload" ELSE "files.create", "poll")

\* batch_request: self.client.files.create / self.client.files.upload
BatchUpload ==
    /\ pc = "upload"
    /\ ClientCall(IF api = "GoogleGenAIAPI" THEN "files.upload" ELSE "files.create", "create")

\* (mutant) the job of an earlier attempt is kept
BatchCreateKeepJob ==
    /\ pc = "create"
    /\ \E outcome \in {"ok"} \cup ClientErrors :
         LET l == Call(log, "batches.create", outcome, attempt)
         IN IF outcome = "ok"
            THEN /\ response' = IF response = 0 THEN attempt ELSE response
                 /\ log' = l
                 /\ pc' = "poll"
                 /\ UNCHANGED <<raised, retries>>
            ELSE /\ Except(l, ClientError(outcome))
                 /\ UNCHANGED response
    /\ UNCHANGED <<outputs, pos, attempt, batch_samples, model_name, status, file_content>>
    /\ UNCHANGED inputVars

\* batch_request: `return self.client.batches.create(...)`, the job
\* returned being batch_request_and_wait's `response`
BatchCreate ==
    /\ pc = "create"
    /\ \E outcome \in {"ok"} \cup ClientErrors :
         LET l == Call(log, "batches.create", outcome, attempt)
         IN IF outcome = "ok"
            THEN /\ response' = attempt
                 /\ log' = l
                 /\ pc' = "poll"
                 /\ UNCHANGED <<raised, retries>>
            ELSE /\ Except(l, ClientError(outcome))
                 /\ UNCHANGED response
    /\ UNCHANGED <<outputs, pos, attempt, batch_samples, model_name, status, file_content>>
    /\ UNCHANGED inputVars

\* (mutant) the handler does not cover the status queries: what they raise
\* leaves the operation
BatchPollUncovered ==
    /\ pc = "poll"
    /\ \/ \E st \in Statuses :
            LET l == Call(log, IF api = "GoogleGenAIAPI" THEN "batches.get" ELSE "batches.retrieve",
                          st, response)
            IN /\ status' = st
               /\ IF Succeeded(st)
                  THEN /\ log' = l
                       /\ pc' = "fetch"
                       /\ UNCHANGED <<raised, retries>>
                  ELSE IF Failed(st)
                  THEN Except(l, Err("APIError",
                           <<IF api = "GoogleGenAIAPI" THEN "Batch request failed with state: "
                                                       ELSE "Batch request failed with status: ", st>>))
                  ELSE /\ retries < MaxRetries
                       /\ retries' = retries + 1
                       /\ log' = Append(l, Ev("sleep_poll", "pool_interval", response))
                       /\ UNCHANGED <<pc, raised>>
       \/ \E outcome \in ClientErrors :
            /\ log' = Call(log, IF api = "GoogleGenAIAPI" THEN "batches.get" ELSE "batches.retrieve",
                           outcome, response)
            /\ Propagate(ClientError(outcome))
            /\ UNCHANGED status
    /\ UNCHANGED <<outputs, pos, attempt, batch_samples, model_name, response, file_content>>
    /\ UNCHANGED inputVars

\* wait_for_batch_request: one turn of the polling loop, and what follows
\* the loop when it breaks
BatchPoll ==
    /\ pc = "poll"
    /\ \/ \E st \in Statuses :
            LET l == Call(log, IF api = "GoogleGenAIAPI" THEN "batches.get" ELSE "batches.retrieve",
                          st, response)
            IN /\ status' = st
               /\ IF Succeeded(st)
                  THEN /\ log' = l
                       /\ pc' = "fetch"
                       /\ UNCHANGED <<raised, retries>>
                  ELSE IF Failed(st)
                  THEN Except(l, Err("APIError",
                           <<IF api = "GoogleGenAIAPI" THEN "Batch request failed with state: "
                                                       ELSE "Batch request failed with status: ", st>>))
                  ELSE /\ retries < MaxRetries
                       /\ retries' = retries + 1
                       /\ log' = Append(l, Ev("sleep_poll", "pool_interval", response))
                       /\ UNCHANGED <<pc, raised>>
       \/ \E outcome \in ClientErrors :
            /\ Except(Call(log, IF api = "GoogleGenAIAPI" THEN "batches.get" ELSE "batches.retrieve",
                           outcome, response),
                      ClientError(outcome))
            /\ UNCHANGED status
    /\ UNCHANGED <<outputs, pos, attempt, batch_samples, model_name, response, file_content>>
    /\ UNCHANGED inputVars

\* wait_for_batch_request after the loop, the job succeeded:
\* self.client.files.content / self.client.files.download
BatchFetch ==
    /\ pc = "fetch"
    /\ \/ /\ api = "GoogleGenAIAPI"
          \* `not (batch_job.dest and batch_job.dest.file_name)`
          /\ Except(log, Err("APIError", <<"Batch job succeeded but no output file found.">>))
          /\ UNCHANGED file_content
       \/ \E rows \in SeqsUpTo(IF api = "GoogleGenAIAPI" THEN GoogleRows ELSE OpenAIRows, MaxRows) :
            /\ log' = Call(log, IF api = "GoogleGenAIAPI" THEN "files.download" ELSE "files.content",
                           "ok", response)
            /\ file_content' = Some(rows)
            /\ pc' = "decode"
            /\ UNCHANGED <<raised, retries>>
       \/ \E outcome \in ClientErrors :
            /\ Except(Call(log, IF api = "GoogleGenAIAPI" THEN "files.download" ELSE "files.content",
                           outcome, response),
                      ClientError(outcome))
            /\ UNCHANGED file_content
    /\ UNCHANGED <<outputs, pos, attempt, batch_samples, model_name, response, status>>
    /\ UNCHANGED inputVars

\* batch_request_and_wait: the loop over file_content.splitlines(), then
\* `return content`
BatchDecode ==
    /\ pc = "decode"
    /\ LET r == Decode(file_content[1], batch_samples)
       IN IF r.ok
          THEN /\ outputs' = r.value
               /\ pc' = "done"
               /\ UNCHANGED <<raised, retries, log>>
          ELSE /\ Except(log, r.err)
               /\ UNCHANGED outputs
    /\ UNCHANGED pos
    /\ UNCHANGED inputVars
    /\ UNCHANGED batchVars

\* `raise NotImplementedError("Batch request is not supported by Ollama API.")`
OllamaNotImplemented ==
    /\ pc' = "raised"
    /\ raised' = Some(Err("NotImplementedError", <<"Batch request is not supported by Ollama API.">>))
    /\ UNCHANGED <<pos, outputs, log, retries>>
    /\ UNCHANGED inputVars
    /\ UNCHANGED batchVars

\* OllamaAPI.batch_request
OllamaBatchRequest ==
    /\ pc = "entry"
    /\ api = "OllamaAPI"
    /\ op = "batch_request"
    /\ OllamaNotImplemented

\* (mutant) the batch degrades silently to an empty result
OllamaBatchRequestAndWaitSilent ==
    /\ pc = "entry"
    /\ api = "OllamaAPI"
    /\ op = "batch_request_and_wait"
    /\ pc' = "done"
    /\ UNCHANGED <<pos, outputs, raised, log, retries>>
    /\ UNCHANGED inputVars
    /\ UNCHANGED batchVars

\* OllamaAPI.batch_request_and_wait
OllamaBatchRequestAndWait ==
    /\ pc = "entry"
    /\ api = "OllamaAPI"
    /\ op = "batch_request_and_wait"
    /\ OllamaNotImplemented

\* OllamaAPI.wait_for_batch_request
OllamaWaitForBatchRequest ==
    /\ pc = "entry"
    /\ api = "OllamaAPI"
    /\ op = "wait_for_batch_request"
    /\ OllamaNotImplemented

NextBatch ==
    \/ BatchIndex
    \/ BatchConvert
    \/ BatchUpload
    \/ BatchCreate
    \/ BatchPoll
    \/ BatchFetch
    \/ BatchDecode
    \/ OllamaBatchRequest
    \/ OllamaBatchRequestAndWait
    \/ OllamaWaitForBatchRequest

SpecBatch == InitBatch /\ [][NextBatch]_vars

---------------------------------------------------------------------------
(* The legacy orchestrator: openaiapicaller API.batch_request_and_wait *)

\* the request files of the legacy orchestrator, which uploads the file as
\* it is and never parses a line of it
LegacySources == SeqsUpTo(Lines, 1)

InitLegacy ==
    /\ api = "LegacyAPI"
    /\ op = "batch_request_and_wait"
    /\ source \in LegacySources
    /\ skip = None
    /\ interval = 0
    /\ pc = "upload"
    /\ pos = 1
    /\ outputs = <<>>
    /\ raised = None
    /\ log = <<>>
    /\ retries = 0
    /\ attempt = 1
    /\ batch_samples = <<>>
    /\ model_name = None
    /\ response = 0
    /\ status = ""
    /\ file_content = None

\* `except APIError as e` of the legacy batch_request_and_wait, reached by
\* exception e with the log at l: the entries of e.response.errors.data are
\* the pieces of e's message; with the quota text in one of them the
\* handler prints and sleeps, without it the handler does nothing; either
\* way the while loop takes its next turn.  An exception that is no
\* APIError passes the handler by.
LegacyExcept(l, e) ==
    IF e.type = "APIError"
    THEN /\ retries < MaxRetries
         /\ retries' = retries + 1
         /\ attempt' = attempt + 1
         /\ log' = IF Mentions(e, QuotaText)
                   THEN Backoff(l, "Enqueued token limit reached", attempt)
                   ELSE l
         /\ pc' = "upload"
         /\ UNCHANGED raised
    ELSE /\ log' = l
         /\ Propagate(e)
         /\ UNCHANGED attempt

\* a client call of the legacy orchestrator
LegacyClientCall(method, then) ==
    /\ \E outcome \in {"ok"} \cup OpenAIErrors :
         LET l == Call(log, method, outcome, attempt)
         IN IF outcome = "ok"
            THEN /\ log' = l
                 /\ pc' = then
                 /\ UNCHANGED <<raised, retries, attempt>>
            ELSE LegacyExcept(l, ClientError(outcome))
    /\ UNCHANGED <<outputs, pos, batch_samples, model_name, response, status, file_content>>
    /\ UNCHANGED inputVars

\* batch_request: self.client.files.create
LegacyUpload ==
    /\ pc = "upload"
    /\ api = "LegacyAPI"
    /\ LegacyClientCall("files.create", "create")

\* batch_request: self.client.batches.create
LegacyCreate ==
    /\ pc = "create"
    /\ api = "LegacyAPI"
    /\ LegacyClientCall("batches.create", "poll")

\* wait_for_batch_request: one turn of the polling loop, and the raise that
\* follows the loop when the job has not completed; the APIError raised
\* carries the batch, whose errors hold the quota entry or do not
LegacyPoll ==
    /\ pc = "poll"
    /\ api = "LegacyAPI"
    /\ \/ \E st \in OpenAIStatuses :
            LET l == Call(log, "batches.retrieve", st, attempt)
            IN /\ status' = st
               /\ IF st = "completed"
                  THEN /\ log' = l
                       /\ pc' = "fetch"
                       /\ UNCHANGED <<raised, retries, attempt>>
                  ELSE IF st \in OpenAIFailed
                  THEN \E name \in {"APIError(quota)", "APIError"} :
                          LegacyExcept(Append(l, Ev("raise", name, attempt)),
                                       Err("APIError", ClientError(name).message
                                               \o <<"Batch request failed with status: ", st>>))
                  ELSE /\ retries < MaxRetries
                       /\ retries' = retries + 1
                       /\ log' = Append(l, Ev("sleep_poll", "pool_interval", attempt))
                       /\ UNCHANGED <<pc, raised, attempt>>
       \/ \E outcome \in OpenAIErrors :
            /\ LegacyExcept(Call(log, "batches.retrieve", outcome, attempt), ClientError(outcome))
            /\ UNCHANGED status
    /\ UNCHANGED <<outputs, pos, batch_samples, model_name, response, file_content>>
    /\ UNCHANGED inputVars

\* wait_for_batch_request after the loop, the job completed:
\* self.client.files.content, and `return file_response.text`
LegacyFetch ==
    /\ pc = "fetch"
    /\ api = "LegacyAPI"
    /\ \/ \E rows \in SeqsUpTo(OpenAIRows, 1) :
            /\ log' = Call(log, "files.content", "ok", attempt)
            /\ file_content' = Some(rows)
            /\ pc' = "done"
            /\ UNCHANGED <<raised, retries, attempt>>
       \/ \E outcome \in OpenAIErrors :
            /\ LegacyExcept(Call(log, "files.content", outcome, attempt), ClientError(outcome))
            /\ UNCHANGED file_content
    /\ UNCHANGED <<outputs, pos, batch_samples, model_name, response, status>>
    /\ UNCHANGED inputVars

NextLegacy ==
    \/ LegacyUpload
    \/ LegacyCreate
    \/ LegacyPoll
    \/ LegacyFetch

SpecLegacy == InitLegacy /\ [][NextLegacy]_vars

---------------------------------------------------------------------------
(* Both drivers *)

Init == InitFile \/ InitBatch

Next == NextFile \/ NextBatch

Spec == Init /\ [][Next]_vars

---------------------------------------------------------------------------
(* Vocabulary of the properties *)

\* the request on line n of the source is in the skip set
InSkip(n) == skip # None /\ source[n].custom_id \in skip[1]

\* the requests of the first n lines that are not skipped, in source order
RECURSIVE Kept(_)
Kept(n) ==
    IF n = 0 THEN <<>>
    ELSE IF InSkip(n) THEN Kept(n - 1) ELSE Append(Kept(n - 1), source[n])

\* every line of the source is a well-formed request
WellFormed == \A n \in DOMAIN source : source[n].valid

\* the answers of the provider that are its back-off signal
\* (openai.RateLimitError, genai_errors.APIError with code 503)
RateLimitSignals == {"RateLimitError", "genai.APIError(503)"}

\* the answers of the provider that are errors of the provider other than the
\* back-off signal: the error class of the provider's SDK (openai.APIError,
\* genai_errors.APIError), and for the adapters that catch Exception whatever
\* the client raises
ProviderFailures ==
    {"APIError", "genai.APIError"} \cup (IF api = "OpenAPI" THEN {} ELSE {"Exception"})

\* the positions of the log that hold an answer to a call made for item n
\* that is one of `whats`
Answers(n, whats) == { i \in EntriesOf(log, "answer", n) : log[i].what \in whats }

\* the log positions of the calls of one of `methods`
CallsOf(methods) == { i \in Entries(log, "call") : log[i].what \in methods }

\* exactly one of response / error is set
ExactlyOneSet(o) == IsSet(o.response) # IsSet(o.error)

---------------------------------------------------------------------------
(* Properties *)

\* C1: every APIOutput yielded by process_request_file (that is, returned by
\* process_single_request of any adapter) or returned by
\* batch_request_and_wait has exactly one of response / error set.
C1_ExactlyOneOfResponseError ==
    \A i \in DOMAIN outputs : ExactlyOneSet(outputs[i])

\* C1 witness: a decoded batch artifact that gave an error row and a
\* success row.
C1_Witness ==
    /\ pc = "done"
    /\ file_content # None
    /\ \E i, j \in DOMAIN outputs : IsSet(outputs[i].error) /\ IsSet(outputs[j].response)

\* C2 as stated: over a well-formed source with no skip set, each request
\* whose provider call was answered, by a result or by a provider failure
\* that is not the back-off signal, has its output at its own position; the
\* finished sequence holds one output per request, in source order; and no
\* provider failure ends the sequence.
C2_OneOutputPerRequest ==
    (WellFormed /\ skip = None) =>
        /\ \A n \in DOMAIN source :
              Answers(n, {"ok"} \cup ProviderFailures) # {} =>
                  /\ n <= Len(outputs)
                  /\ outputs[n].custom_id = source[n].custom_id
        /\ pc = "done" =>
              /\ Len(outputs) = Len(source)
              /\ \A n \in DOMAIN source : outputs[n].custom_id = source[n].custom_id
        /\ pc = "raised" => log[Len(log)].what \notin ProviderFailures \cup RateLimitSignals

\* C3: no output carries a skipped id, no provider call is made for a
\* skipped request, and the outputs are those of the non-skipped requests
\* read so far, one each, in source order.
C3_SkippedNeverProcessed ==
    /\ \A i \in DOMAIN outputs : skip # None => outputs[i].custom_id \notin skip[1]
    /\ \A i \in Entries(log, "call") : ~InSkip(log[i].n)
    /\ Len(outputs) = Len(Kept(pos - 1))
    /\ \A i \in DOMAIN outputs : outputs[i].custom_id = Kept(pos - 1)[i].custom_id

\* C3 witness: a finished run that skipped a request between two processed
\* ones.
C3_Witness ==
    /\ pc = "done"
    /\ Len(source) = 3
    /\ InSkip(2) /\ ~InSkip(1) /\ ~InSkip(3)
    /\ Len(outputs) = 2

\* C4 as stated: a provider failure that is not the back-off signal is the
\* last thing the provider is asked for that request (no retry), and the
\* request has its output, carrying its custom_id and an error and no
\* response: process_single_request has returned and the driver is past
\* the request.
C4_ProviderFailureCaptured ==
    \A n \in DOMAIN source :
        \A i \in Answers(n, ProviderFailures) :
            /\ \A j \in EntriesOf(log, "call", n) : j < i
            /\ pos > n
            /\ LET k == Len(Kept(n))
               IN /\ k <= Len(outputs)
                  /\ outputs[k].custom_id = source[n].custom_id
                  /\ IsSet(outputs[k].error)
                  /\ ~IsSet(outputs[k].response)

\* C5: a request the provider answered with the back-off signal K times and
\* then with a result has had K + 1 provider calls and K back-off sleeps,
\* each of pool_interval, and its output is the success output with its
\* custom_id.
C5_RateLimitBackoff ==
    \A n \in DOMAIN source :
        LET K == Cardinality(Answers(n, RateLimitSignals))
        IN (/\ Answers(n, {"ok"}) # {}
            /\ Cardinality(EntriesOf(log, "answer", n)) = K + 1) =>
               /\ Cardinality(EntriesOf(log, "call", n)) = K + 1
               /\ Cardinality(EntriesOf(log, "sleep_backoff", n)) = K
               /\ \A i \in EntriesOf(log, "sleep_backoff", n) : log[i].what = "pool_interval"
               /\ \A i \in Answers(n, RateLimitSignals) :
                     /\ i + 2 <= Len(log)
                     /\ log[i + 2].kind = "sleep_backoff"
               /\ LET k == Len(Kept(n))
                  IN /\ k <= Len(outputs)
                     /\ outputs[k].custom_id = source[n].custom_id
                     /\ IsSet(outputs[k].response)
                     /\ outputs[k].error = None

\* C5 witness: a request answered twice with the back-off signal, then
\* with a result.
C5_Witness ==
    \E n \in DOMAIN source :
        /\ Cardinality(Answers(n, RateLimitSignals)) = 2
        /\ Cardinality(EntriesOf(log, "answer", n)) = 3
        /\ Answers(n, {"ok"}) # {}
        /\ Len(outputs) = Len(Kept(n))

---------------------------------------------------------------------------
(* Properties of the batch orchestrator *)

\* line j of the source repeats the custom_id of an earlier line, and the
\* lines up to it are well-formed
SecondOccurrence(j) ==
    /\ \A i \in 1..j : source[i].valid
    /\ \E i \in 1..(j - 1) : source[i].custom_id = source[j].custom_id

\* all custom_ids of the source differ
DistinctIds ==
    \A i, j \in DOMAIN source : source[i].custom_id = source[j].custom_id => i = j

\* the number of answers that are the quota signal of the openai client
QuotaRejections ==
    Cardinality({ i \in Entries(log, "answer") : log[i].what = "APIError(quota)" })

\* the log positions holding a sleep of any kind
Sleeps == Entries(log, "sleep_backoff") \cup Entries(log, "sleep_poll")
              \cup Entries(log, "sleep_pacing")

\* the client calls of the batch submission
SubmitCalls == {"files.create", "files.upload", "batches.create"}
\* the client calls that query the status of the job
StatusCalls == {"batches.retrieve", "batches.get"}
\* the client calls that fetch the result artifact
FetchCalls == {"files.content", "files.download"}

\* the labels of the terminal states that are not success: failed,
\* canceled (in either spelling) and expired
FailedLabels == {"failed", "canceled", "cancelled", "expired",
                 "JOB_STATE_FAILED", "JOB_STATE_CANCELLED", "JOB_STATE_EXPIRED"}

\* C6: once read_batch_file has run, a source with a repeated custom_id has
\* made it raise the error naming the id of the first repeating line, an
\* index was never handed on; a well-formed source with distinct ids gives
\* an index with one entry per line, each id mapped to the line carrying it.
C6_IndexRejectsDuplicates ==
    attempt >= 1 =>
        /\ \A j \in DOMAIN source :
              (SecondOccurrence(j) /\ \A h \in 1..(j - 1) : ~SecondOccurrence(h)) =>
                  /\ pc = "raised"
                  /\ raised[1].type = "ValueError"
                  /\ Mentions(raised[1], source[j].custom_id)
                  /\ batch_samples = <<>>
        /\ (WellFormed /\ DistinctIds) =>
              /\ Cardinality(DOMAIN batch_samples) = Len(source)
              /\ \A n \in DOMAIN source :
                    /\ source[n].custom_id \in DOMAIN batch_samples
                    /\ batch_samples[source[n].custom_id] = source[n]

\* C6 witness: the second line repeats the first and a line follows:
\* read_batch_file has raised for the id at the second line.
C6_Witness ==
    /\ Len(source) = 3
    /\ SecondOccurrence(2)
    /\ ~source[3].valid
    /\ pc = "raised"
    /\ Mentions(raised[1], source[2].custom_id)

\* C7: with a repeated custom_id or a malformed line in the source,
\* batch_request_and_wait makes no client call and no sleep, and its first
\* read of the source ends it with the error of that read.
C7_BadSourceFailsBeforeAnyCall ==
    (~WellFormed \/ ~DistinctIds) =>
        /\ Entries(log, "call") = {}
        /\ Sleeps = {}
        /\ Entries(log, "print") = {}
        /\ attempt <= 1
        /\ attempt = 1 =>
              /\ pc = "raised"
              /\ raised[1].type \in {"ValueError", "ValidationError"}

\* C7 witness: the malformed line is the last of three, after two
\* well-formed lines with different ids, and the operation has raised.
C7_Witness ==
    /\ Len(source) = 3
    /\ source[1].valid /\ source[2].valid /\ ~source[3].valid
    /\ source[1].custom_id # source[2].custom_id
    /\ pc = "raised"

\* C8: in OpenAPI.batch_request_and_wait, with K the number of quota
\* rejections so far, there were K back-off sleeps, each of pool_interval
\* and each right after the print that follows its rejection; on the way
\* through an attempt the source was read for the index K + 1 times and
\* batch_request was entered K + 1 times at most (exactly, once the
\* artifact is being uploaded); and the outputs returned are decoded from
\* the artifact fetched in attempt K + 1.
C8_QuotaRetryRestartsCycle ==
    api = "OpenAPI" =>
        LET K == QuotaRejections
            reads == Cardinality({ i \in Entries(log, "read") : log[i].what = "read_batch_file" })
            submits == Cardinality({ i \in Entries(log, "read") : log[i].what = "convert_batch_file" })
        IN /\ Cardinality(Entries(log, "sleep_backoff")) = K
           /\ \A i \in Entries(log, "sleep_backoff") : log[i].what = "pool_interval"
           /\ \A i \in Entries(log, "answer") :
                 log[i].what = "APIError(quota)" =>
                    /\ i + 2 <= Len(log)
                    /\ log[i + 1].kind = "print"
                    /\ log[i + 2].kind = "sleep_backoff"
           /\ reads = attempt
           /\ pc = "index" => (attempt = K /\ submits <= K)
           /\ pc \notin {"index", "raised"} => (attempt = K + 1 /\ reads = K + 1)
           /\ pc \in {"upload", "create", "poll", "fetch", "decode", "done"} => submits = K + 1
           /\ pc = "done" =>
                 /\ \E i \in CallsOf(FetchCalls) :
                       /\ log[i].n = K + 1
                       /\ log[i + 1].what = "ok"
                       /\ \A j \in CallsOf(FetchCalls) : j <= i
                 /\ Len(outputs) = Len(file_content[1])
                 /\ \A r \in DOMAIN outputs : outputs[r].custom_id = file_content[1][r].id

\* C8 witness: two quota rejections, then an attempt that returned outputs.
C8_Witness ==
    /\ api = "OpenAPI"
    /\ pc = "done"
    /\ QuotaRejections = 2
    /\ attempt = 3
    /\ Len(outputs) = 2

\* C9: an error raised by the upload or by the job creation that is not the
\* quota signal is the last entry of the log (no sleep, no further call, no
\* further read of the source) and is the exception batch_request_and_wait
\* has raised.
C9_SubmissionErrorPropagates ==
    \A i \in CallsOf(SubmitCalls) :
        log[i + 1].what \in {"APIError", "Exception", "genai.APIError"} =>
            /\ i + 1 = Len(log)
            /\ pc = "raised"
            /\ raised = Some(ClientError(log[i + 1].what))
            /\ attempt = log[i].n

\* C9 witness: the job creation of the second attempt raised an APIError
\* that is not the quota signal.
C9_Witness ==
    /\ pc = "raised"
    /\ attempt = 2
    /\ log[Len(log)].what = "APIError"
    /\ log[Len(log) - 1].what = "batches.create"

\* C10 as stated: a status query answered with a terminal state that is not success
\* is the last entry of the log; batch_request_and_wait has raised an
\* APIError whose message holds the state, has no outputs, has not fetched an
\* artifact for the job, and has made no submit attempt beyond those that
\* followed the quota rejections (exactly one when there was none).
C10_FailedJobRaises ==
    \A i \in CallsOf(StatusCalls) :
        log[i + 1].what \in FailedLabels =>
            /\ i + 1 = Len(log)
            /\ pc = "raised"
            /\ raised[1].type = "APIError"
            /\ Mentions(raised[1], log[i + 1].what)
            /\ outputs = <<>>
            /\ file_content = None
            /\ \A j \in CallsOf(FetchCalls) : log[j].n # attempt
            /\ attempt = log[i].n
            /\ attempt = QuotaRejections + 1
            /\ Cardinality({ j \in CallsOf({"batches.create"}) : log[j].n = attempt }) = 1

\* C10 witness: the job was polled once while running, then found failed.
C10_Witness ==
    /\ pc = "raised"
    /\ attempt = 1
    /\ status \in {"failed", "JOB_STATE_FAILED"}
    /\ Entries(log, "sleep_poll") # {}

---------------------------------------------------------------------------
(* Properties of the decoding of the result artifact *)

\* the decode loop has run over the artifact fetched
Decoded == file_content # None /\ pc # "decode"

\* row r of the artifact is a parsable row with a response the provider
\* schema accepts
GoodRow(r) == r.json /\ r.kind = "response"

\* row r of the artifact names an id the Submitted-Request Index lacks
UnknownRow(r) == r.json /\ r.id \notin DOMAIN batch_samples

\* row r of the artifact is malformed: an unparsable line, a row without
\* its response, or a response the provider schema rejects
MalformedRow(r) == ~r.json \/ r.kind \in {"no_response", "invalid_response"}

\* C11 as stated: an artifact of good rows of which one names an id absent
\* from the index is decoded to the end: batch_request_and_wait returns one
\* output per row, in the order of the rows, the output of the unknown row
\* carrying an error and the others a response.
C11_UnknownIdRowCaptured ==
    (/\ Decoded
     /\ \A r \in DOMAIN file_content[1] : GoodRow(file_content[1][r])
     /\ \E r \in DOMAIN file_content[1] : UnknownRow(file_content[1][r])) =>
        /\ pc = "done"
        /\ Len(outputs) = Len(file_content[1])
        /\ \A r \in DOMAIN outputs :
              /\ outputs[r].custom_id = file_content[1][r].id
              /\ UnknownRow(file_content[1][r]) => IsSet(outputs[r].error)
              /\ ~UnknownRow(file_content[1][r]) => IsSet(outputs[r].response)

\* C12 as stated: an artifact with a malformed row, its other rows good and
\* naming indexed ids, is decoded to the end: batch_request_and_wait returns
\* one output per row, an error output for the malformed row and the
\* response outputs of the others.
C12_MalformedRowCaptured ==
    (/\ Decoded
     /\ \E r \in DOMAIN file_content[1] : MalformedRow(file_content[1][r])
     /\ \A r \in DOMAIN file_content[1] :
           \/ MalformedRow(file_content[1][r])
           \/ GoodRow(file_content[1][r]) /\ ~UnknownRow(file_content[1][r])) =>
        /\ pc = "done"
        /\ Len(outputs) = Len(file_content[1])
        /\ \A r \in DOMAIN outputs :
              IF MalformedRow(file_content[1][r])
              THEN IsSet(outputs[r].error)
              ELSE /\ IsSet(outputs[r].response)
                   /\ outputs[r].custom_id = file_content[1][r].id

\* C13 as stated: an artifact in which two rows carry the same custom_id
\* makes batch_request_and_wait raise an error naming that id, and the list
\* it returns never holds two outputs with the same custom_id.
C13_DuplicateRowsFatal ==
    /\ (/\ Decoded
        /\ \A r \in DOMAIN file_content[1] : GoodRow(file_content[1][r])
        /\ \E r, q \in DOMAIN file_content[1] :
              r # q /\ file_content[1][r].id = file_content[1][q].id) =>
           /\ pc = "raised"
           /\ \E r, q \in DOMAIN file_content[1] :
                 /\ r # q
                 /\ file_content[1][r].id = file_content[1][q].id
                 /\ Mentions(raised[1], file_content[1][r].id)
    /\ pc = "done" =>
          \A r, q \in DOMAIN outputs : outputs[r].custom_id = outputs[q].custom_id => r = q

---------------------------------------------------------------------------
(* Properties of the adapters' limits *)

\* the exception the batch methods of OllamaAPI raise
Unsupported == Err("NotImplementedError", <<"Batch request is not supported by Ollama API.">>)

\* C14: a batch method of OllamaAPI does nothing but raise the
\* unsupported-operation error: it never returns, and it has read nothing
\* of the source, called no client method, slept or printed nothing and
\* produced no output, whatever the source holds; process_request_file of
\* the same adapter never raises that error and has one output per client
\* call, a response output when the call returned and an error output when
\* it raised.
C14_OllamaBatchUnsupported ==
    api = "OllamaAPI" =>
        IF op \in BatchOperations
        THEN /\ pc \in {"entry", "raised"}
             /\ pc = "raised" => raised = Some(Unsupported)
             /\ log = <<>>
             /\ outputs = <<>>
             /\ attempt = 0
             /\ batch_samples = <<>>
             /\ file_content = None
        ELSE /\ raised # Some(Unsupported)
             /\ Len(outputs) = Cardinality(Entries(log, "call"))
             /\ \A i \in Entries(log, "answer") :
                   LET k == Cardinality({ j \in Entries(log, "answer") : j <= i })
                   IN IF log[i].what = "ok"
                      THEN IsSet(outputs[k].response)
                      ELSE IsSet(outputs[k].error)

\* C14 witness: batch_request_and_wait of OllamaAPI has raised over a source
\* of three lines whose first line is malformed.
C14_Witness ==
    /\ api = "OllamaAPI"
    /\ op = "batch_request_and_wait"
    /\ pc = "raised"
    /\ Len(source) = 3
    /\ ~source[1].valid

\* line n is the first line of the source whose model differs from the
\* model of the first line
MixedAt(n) ==
    /\ n > 1
    /\ source[n].model # source[1].model
    /\ \A h \in 2..(n - 1) : source[h].model = source[1].model

\* batch_request has called convert_batch_file
Converted == \E i \in Entries(log, "read") : log[i].what = "convert_batch_file"

\* C15: for GoogleGenAIAPI, once batch_request has converted a source that
\* the index accepted: if a line's model differs from the first line's,
\* whatever line it is, the operation has raised the ValueError naming the
\* model found and the model expected, and no client call (no upload, no job
\* creation), sleep or print was made; if all lines carry one model, that
\* model is the model_name the job is created with, and nothing was raised
\* before the upload.
C15_MixedModelRejected ==
    (api = "GoogleGenAIAPI" /\ Converted) =>
        /\ \A n \in DOMAIN source :
              MixedAt(n) =>
                 /\ pc = "raised"
                 /\ raised = Some(Err("ValueError",
                        <<"All requests in a batch must use the same model. Found ",
                          source[n].model, ", expected ", source[1].model>>))
                 /\ Mentions(raised[1], source[n].model)
                 /\ Mentions(raised[1], source[1].model)
                 /\ Entries(log, "call") = {}
                 /\ Sleeps = {}
                 /\ Entries(log, "print") = {}
                 /\ model_name = None
        /\ (source # <<>> /\ \A n \in DOMAIN source : source[n].model = source[1].model) =>
              /\ model_name = Some(source[1].model)
              /\ pc = "raised" => CallsOf({"files.upload"}) # {}

\* C15 witness: the third of three lines carries another model than the
\* first two, and the operation has raised.
C15_Witness ==
    /\ api = "GoogleGenAIAPI"
    /\ Len(source) = 3
    /\ MixedAt(3)
    /\ Converted
    /\ pc = "raised"

---------------------------------------------------------------------------
(* Properties of the pacing *)

\* the pacing sleeps of process_request_file
PacingSleeps == Entries(log, "sleep_pacing")

\* C16 as stated: with a positive process_requests_interval, no pacing
\* sleep precedes the first provider call, and a finished
\* process_request_file has slept max(0, P - 1) times for pacing, P the
\* number of requests of the source that are not skipped.
C16_PacingBetweenProcessed ==
    interval > 0 =>
        /\ \A i \in PacingSleeps : \E j \in Entries(log, "call") : j < i
        /\ pc = "done" =>
              LET P == Len(Kept(Len(source)))
              IN Cardinality(PacingSleeps) = IF P = 0 THEN 0 ELSE P - 1

---------------------------------------------------------------------------
(* Properties of the polling *)

\* the labels of the terminal states
TerminalLabels == FailedLabels \cup {"completed", "JOB_STATE_SUCCEEDED"}
\* the labels of the states that are not terminal
RunningLabels == {"in_progress", "JOB_STATE_RUNNING"}

\* C17 as stated: a status query that observed a state that is not terminal
\* is followed by a sleep of pool_interval and leaves the operation polling
\* (or further, after a later query); a status query that observed a
\* terminal state ends the loop: no sleep and no status query of that
\* attempt follows it, on success the artifact is fetched next (or the
\* job without an output file is reported), otherwise the operation has
\* raised an error naming the state.
C17_PollsUntilTerminal ==
    \A i \in CallsOf(StatusCalls) :
        LET st == log[i + 1].what
        IN /\ st \in RunningLabels =>
                 /\ i + 2 <= Len(log)
                 /\ log[i + 2] = Ev("sleep_poll", "pool_interval", log[i].n)
                 /\ i + 2 = Len(log) => pc = "poll"
           /\ st \in TerminalLabels =>
                 /\ \A j \in Entries(log, "sleep_poll") : j > i => log[j].n # log[i].n
                 /\ \A j \in CallsOf(StatusCalls) : j > i => log[j].n # log[i].n
                 /\ i + 1 = Len(log) =>
                       IF st \in FailedLabels
                       THEN /\ pc = "raised"
                            /\ Mentions(raised[1], st)
                       ELSE \/ pc = "fetch"
                            \/ pc = "raised" /\ Mentions(raised[1], "Batch job succeeded but no output file found.")
                 /\ (i + 1 < Len(log) /\ st \notin FailedLabels) =>
                       /\ log[i + 2].kind = "call"
                       /\ log[i + 2].what \in FetchCalls

---------------------------------------------------------------------------
(* Round trip of a batch *)

\* the records of the file convert_batch_file makes of the source
Sent == convert_batch_file(source).value.file

\* the provider is lossless: the artifact fetched holds as many rows as
\* the converted file holds records, all of them good rows, and each
\* record's key is the id of exactly one row
Lossless ==
    /\ file_content # None
    /\ convert_batch_file(source).ok
    /\ Len(file_content[1]) = Len(Sent)
    /\ \A r \in DOMAIN file_content[1] : GoodRow(file_content[1][r])
    /\ \A k \in DOMAIN Sent :
          Cardinality({ r \in DOMAIN file_content[1] : file_content[1][r].id = Sent[k].key }) = 1

\* C18: the artifact of a lossless provider is decoded to the end, and for
\* every request of the Submitted-Request Index the list returned holds
\* exactly one output with the request's custom_id, and that output carries
\* a response with the request's structured flag; the list holds nothing
\* else.
C18_RoundTrip ==
    (Decoded /\ Lossless) =>
        /\ pc = "done"
        /\ Len(outputs) = Cardinality(DOMAIN batch_samples)
        /\ \A id \in DOMAIN batch_samples :
              /\ Cardinality({ r \in DOMAIN outputs : outputs[r].custom_id = id }) = 1
              /\ \A r \in DOMAIN outputs :
                    outputs[r].custom_id = id =>
                       /\ IsSet(outputs[r].response)
                       /\ outputs[r].response[1].structured = batch_samples[id].structured
                       /\ outputs[r].error = None

\* C18 witness: a batch of a structured and an unstructured request came
\* back in the other order and was decoded.
C18_Witness ==
    /\ pc = "done"
    /\ Lossless
    /\ Len(source) = 2
    /\ source[1].structured # source[2].structured
    /\ file_content[1][1].id = source[2].custom_id
    /\ Len(outputs) = 2

---------------------------------------------------------------------------
(* Properties of the reading of the source *)

\* line k is the first line of the source that is malformed
FirstMalformed(k) ==
    /\ ~source[k].valid
    /\ \A h \in 1..(k - 1) : source[h].valid

\* C19: with the first malformed record on line k, process_request_file
\* never gets past line k: no provider call and no pacing sleep is made for
\* line k or a later line, it never finishes normally, and no output beyond
\* those of the non-skipped records before line k is yielded; once the
\* read error of line k is raised, the outputs yielded are exactly those
\* of the non-skipped records before line k, one each, in source order.
C19_MalformedRecordHalts ==
    \A k \in DOMAIN source :
        FirstMalformed(k) =>
            /\ pos <= k
            /\ pc # "done"
            /\ \A i \in DOMAIN log : log[i].n < k
            /\ Len(outputs) <= Len(Kept(k - 1))
            /\ \A i \in DOMAIN outputs : outputs[i].custom_id = Kept(k - 1)[i].custom_id
            /\ (pc = "raised" /\ raised[1].type = "ValidationError") =>
                  /\ pos = k
                  /\ Len(outputs) = Len(Kept(k - 1))

\* C19 witness: the third line is malformed, the first was skipped, the
\* second processed, and the read error was raised.
C19_Witness ==
    /\ Len(source) = 3
    /\ FirstMalformed(3)
    /\ InSkip(1)
    /\ pc = "raised"
    /\ raised[1].type = "ValidationError"
    /\ Len(outputs) = 1

---------------------------------------------------------------------------
(* Frame of the batch orchestrator *)

\* the log positions of the job creations that returned a job
JobsCreated == { i \in CallsOf({"batches.create"}) : log[i + 1].what = "ok" }

\* C20: every client call of batch_request_and_wait is an upload, a job
\* creation, a status query or a fetch of the artifact; the calls of an
\* attempt that follow its job creation are status queries and, after a
\* query that observed success, one fetch of the artifact; and the job
\* status the operation holds is one a status query reported.
C20_JobOnlyObserved ==
    /\ \A i \in Entries(log, "call") :
          log[i].what \in SubmitCalls \cup StatusCalls \cup FetchCalls
    /\ \A c \in JobsCreated :
          \A i \in Entries(log, "call") :
             (i > c /\ log[i].n = log[c].n) =>
                /\ log[i].what \in StatusCalls \cup FetchCalls
                /\ log[i].what \in FetchCalls =>
                      /\ log[i - 1].kind = "answer"
                      /\ log[i - 1].what \in {"completed", "JOB_STATE_SUCCEEDED"}
    /\ status # "" => \E i \in CallsOf(StatusCalls) : log[i + 1].what = status

\* C20 witness: a status query of the first job was rejected for quota, the
\* job of the second attempt was polled while running, then fetched and
\* decoded.
C20_Witness ==
    /\ pc = "done"
    /\ attempt = 2
    /\ \E i \in CallsOf(StatusCalls) : log[i].n = 1 /\ log[i + 1].what = "APIError(quota)"
    /\ \E i \in Entries(log, "sleep_poll") : log[i].n = 2

---------------------------------------------------------------------------
(* Properties of the retries *)

\* call j of the log repeats call i: the next client call made for the same
\* request
Repeats(i, j) ==
    /\ i < j
    /\ log[i].n = log[j].n
    /\ \A h \in Entries(log, "call") : ~(i < h /\ h < j)

\* C21 as stated: every backoff sleep comes right after a progress message;
\* in process_request_file a provider call is repeated for a request only
\* after the answer to the earlier call, a progress message and a sleep of
\* pool_interval, in that order; and batch_request_and_wait starts an
\* attempt after the first only after a progress message and a sleep of
\* pool_interval.
C21_RetryAnnounced ==
    /\ \A i \in Entries(log, "sleep_backoff") :
          /\ i > 1
          /\ log[i - 1].kind = "print"
          /\ log[i].what = "pool_interval"
    /\ op = "process_request_file" =>
          \A i, j \in Entries(log, "call") :
             Repeats(i, j) =>
                /\ j = i + 4
                /\ log[i + 2].kind = "print"
                /\ log[i + 3] = Ev("sleep_backoff", "pool_interval", log[i].n)
    /\ op = "batch_request_and_wait" =>
          \A i \in Entries(log, "read") :
             (log[i].what = "read_batch_file" /\ log[i].n > 1) =>
                /\ log[i - 2].kind = "print"
                /\ log[i - 1] = Ev("sleep_backoff", "pool_interval", log[i].n - 1)

---------------------------------------------------------------------------
(* Properties of the list returned *)

\* C22 as stated: when batch_request_and_wait returns, every request of the
\* Submitted-Request Index has an output carrying its custom_id (a request
\* without a row in the artifact is reported, by an error output if not by
\* a raised error).
C22_MissingRowsFlagged ==
    (pc = "done" /\ op = "batch_request_and_wait") =>
        \A id \in DOMAIN batch_samples :
            \E r \in DOMAIN outputs : outputs[r].custom_id = id

---------------------------------------------------------------------------
(* Order of the steps of an attempt *)

\* the place of a step in an attempt of batch_request_and_wait: building
\* the index, converting the source, uploading, creating the job, querying
\* its status, fetching the artifact (0: the entry is no step)
Rank(e) ==
    CASE e.kind = "read" /\ e.what = "read_batch_file" -> 1
      [] e.kind = "read" /\ e.what = "convert_batch_file" -> 2
      [] e.kind = "call" /\ e.what \in {"files.create", "files.upload"} -> 3
      [] e.kind = "call" /\ e.what = "batches.create" -> 4
      [] e.kind = "call" /\ e.what \in StatusCalls -> 5
      [] e.kind = "call" /\ e.what \in FetchCalls -> 6
      [] OTHER -> 0

\* the log positions that hold a step
Steps == { i \in DOMAIN log : Rank(log[i]) > 0 }

\* step h has ended well: the read is followed by the next step, the call
\* was answered by a return (a status query: by the succeeded state)
EndedWell(h) ==
    CASE log[h].kind = "read" -> TRUE
      [] log[h].what \in StatusCalls -> log[h + 1].what \in {"completed", "JOB_STATE_SUCCEEDED"}
      [] OTHER -> log[h + 1].what = "ok"

\* C23: the entries of the log are in the order of the attempts; within an
\* attempt no step comes before a step of lower place, only the status
\* query is repeated, and every step but the first follows the step one
\* place lower of the same attempt, ended well (the fetch right after the
\* query that observed success); decoding starts, and the operation
\* returns, right after the fetch of the current attempt; and an attempt
\* after the first starts right after the backoff of a quota rejection.
C23_AttemptOrder ==
    op = "batch_request_and_wait" =>
        /\ \A i, j \in DOMAIN log : i < j => log[i].n <= log[j].n
        /\ \A i \in Steps :
              /\ \A h \in Steps :
                    (h < i /\ log[h].n = log[i].n) =>
                       /\ Rank(log[h]) <= Rank(log[i])
                       /\ Rank(log[h]) = Rank(log[i]) => Rank(log[i]) = 5
              /\ Rank(log[i]) > 1 =>
                    \E h \in Steps :
                       /\ h < i
                       /\ log[h].n = log[i].n
                       /\ Rank(log[h]) = Rank(log[i]) - 1
                       /\ EndedWell(h)
                       /\ Rank(log[i]) = 6 => i = h + 2
              /\ (Rank(log[i]) = 1 /\ log[i].n > 1) =>
                    /\ log[i - 1].kind = "sleep_backoff"
                    /\ log[i - 3].what = "APIError(quota)"
        /\ pc \in {"decode", "done"} =>
              /\ Rank(log[Len(log) - 1]) = 6
              /\ log[Len(log)] = Ev("answer", "ok", attempt)

\* C23 witness: the second attempt, started after the job creation of the
\* first was rejected for quota, went through every step, with a status
\* query repeated, and returned.
C23_Witness ==
    /\ pc = "done"
    /\ attempt = 2
    /\ \E i \in CallsOf({"batches.create"}) : log[i].n = 1 /\ log[i + 1].what = "APIError(quota)"
    /\ Cardinality({ i \in CallsOf(StatusCalls) : log[i].n = 2 }) = 2

---------------------------------------------------------------------------
(* Quota rejections of the Google client *)

\* C24 as stated: for GoogleGenAIAPI, an upload or a job creation that the
\* client rejected with its APIError carrying the quota text is followed by
\* the progress message and one sleep of pool_interval, after which the
\* operation is back at the top of its loop and goes on to read the source
\* again; the rejection is not raised to the caller.
C24_GoogleQuotaRetried ==
    api = "GoogleGenAIAPI" =>
        \A i \in CallsOf(SubmitCalls) :
            log[i + 1].what = "genai.APIError(quota)" =>
                /\ i + 3 <= Len(log)
                /\ log[i + 2].kind = "print"
                /\ log[i + 3] = Ev("sleep_backoff", "pool_interval", log[i].n)
                /\ i + 3 = Len(log) => pc = "index"
                /\ i + 3 < Len(log) => log[i + 4] = Ev("read", "read_batch_file", log[i].n + 1)
                /\ raised # Some(ClientError("genai.APIError(quota)"))

---------------------------------------------------------------------------
(* Properties of the legacy orchestrator *)

\* the log positions where an APIError without the quota entry reached
\* the handler: raised by a client call, or by wait_for_batch_request for a
\* job that ended failed, canceled or expired
PlainAPIErrors ==
    { i \in Entries(log, "answer") \cup Entries(log, "raise") : log[i].what = "APIError" }

\* C25 as stated: an APIError without the quota entry is the last entry of
\* the log and is raised to the caller: nothing is uploaded after it; and
\* every upload after the first comes right after a sleep of pool_interval.
C25_LegacyNonQuotaRaised ==
    /\ \A i \in PlainAPIErrors :
          /\ i = Len(log)
          /\ pc = "raised"
          /\ raised[1].type = "APIError"
    /\ \A i \in CallsOf({"files.create"}) :
          i > 1 => log[i - 1] = Ev("sleep_backoff", "pool_interval", log[i].n - 1)

---------------------------------------------------------------------------
(* Termination of process_single_request *)

\* C26 as stated: the provider calls made for a request are one more, at
\* most, than the rate-limit signals it was answered with (only the
\* rate-limit signal makes the loop take another turn), and an answer that
\* is not the rate-limit signal ends process_single_request: the driver is
\* past the request, or the exception has left the operation.
C26_BoundedByRateLimit ==
    op = "process_request_file" =>
        \A n \in DOMAIN source :
            /\ Cardinality(EntriesOf(log, "call", n))
                  <= Cardinality(Answers(n, RateLimitSignals)) + 1
            /\ \A i \in EntriesOf(log, "answer", n) :
                  log[i].what \notin RateLimitSignals => (pos > n \/ pc = "raised")

---------------------------------------------------------------------------
(* Shape of the list returned *)

\* C27: the list batch_request_and_wait returns has one output per line of
\* the artifact fetched, and the j-th output carries the id of the j-th
\* line: the order is the artifact's, whatever the order of the source.
C27_OutputsInArtifactOrder ==
    (pc = "done" /\ op = "batch_request_and_wait") =>
        /\ file_content # None
        /\ Len(outputs) = Len(file_content[1])
        /\ \A j \in DOMAIN outputs : outputs[j].custom_id = file_content[1][j].id

\* C27 witness: the artifact held the rows of two requests in the order
\* opposite to the source's, and was decoded.
C27_Witness ==
    /\ pc = "done"
    /\ Len(source) = 2
    /\ Len(outputs) = 2
    /\ outputs[1].custom_id = source[2].custom_id
    /\ outputs[2].custom_id = source[1].custom_id
    /\ source[1].custom_id # source[2].custom_id

---------------------------------------------------------------------------
(* Independence of the attempts *)

\* the attempt underway when entry i of the log was made: the number of
\* times the index had been built by then
AttemptAt(i) ==
    Cardinality({ h \in Entries(log, "read") : h <= i /\ log[h].what = "read_batch_file" })

\* the log positions of the steps of place k made in attempt n
StepsOf(k, n) == { i \in Steps : Rank(log[i]) = k /\ AttemptAt(i) = n }

\* C28: every attempt started has built the index once, and has converted
\* the source, uploaded an artifact and created a job once at most, once
\* exactly when the attempt underway has a job; every status query and
\* every fetch is made for the job created in the attempt underway; no
\* output exists before the operation returns; and the list returned is
\* the decoding of the artifact fetched in the last attempt against the
\* index of the source, the structured flag of every response being that
\* of the indexed request.
C28_AttemptsShareNothing ==
    (op = "batch_request_and_wait" /\ api \in BatchAdapters) =>
        /\ \A n \in 1..attempt :
              /\ Cardinality(StepsOf(1, n)) = 1
              /\ \A k \in 2..4 : Cardinality(StepsOf(k, n)) <= 1
        /\ pc \in {"poll", "fetch", "decode", "done"} =>
              /\ \A k \in 2..4 : Cardinality(StepsOf(k, attempt)) = 1
              /\ response = attempt
        /\ \A i \in CallsOf(StatusCalls \cup FetchCalls) :
              /\ log[i].n = AttemptAt(i)
              /\ \E c \in JobsCreated : c < i /\ AttemptAt(c) = AttemptAt(i)
        /\ pc # "done" => outputs = <<>>
        /\ pc = "done" =>
              /\ batch_samples = read_batch_file(source).value
              /\ outputs = Decode(file_content[1], batch_samples).value
              /\ Cardinality(StepsOf(6, attempt)) = 1
              /\ \A i \in CallsOf(FetchCalls) : log[i + 1].what = "ok" => AttemptAt(i) = attempt
              /\ \A r \in DOMAIN outputs :
                    IsSet(outputs[r].response) =>
                       outputs[r].response[1].structured
                           = batch_samples[outputs[r].custom_id].structured

\* C28 witness: the job of the first attempt was abandoned when one of its
\* status queries was rejected for quota; the second attempt polled its own
\* job and returned two outputs.
C28_Witness ==
    /\ pc = "done"
    /\ attempt = 2
    /\ response = 2
    /\ \E i \in CallsOf(StatusCalls) : log[i].n = 1 /\ log[i + 1].what = "APIError(quota)"
    /\ \E i \in CallsOf(StatusCalls) : log[i].n = 2
    /\ Len(outputs) = 2

---------------------------------------------------------------------------
(* Sleeps of the polling loop *)

\* the status queries made for job n that were answered with a label in
\* `labels`
Observed(n, labels) ==
    { i \in CallsOf(StatusCalls) : log[i].n = n /\ log[i + 1].what \in labels }

\* C29 as stated: for every job, the first status query comes right after
\* the creation of the job, with no sleep before it; the polling loop has
\* slept once, for pool_interval, for each status query that observed a
\* state that is not terminal, and not more; and no sleep follows a query
\* that observed a terminal state.
C29_SleepsMatchRunningQueries ==
    op = "batch_request_and_wait" =>
        \A n \in 1..attempt :
            /\ \A i \in CallsOf(StatusCalls) :
                  (log[i].n = n /\ \A h \in CallsOf(StatusCalls) : log[h].n = n => i <= h) =>
                     /\ log[i - 2].what = "batches.create"
                     /\ log[i - 1].what = "ok"
            /\ Cardinality(EntriesOf(log, "sleep_poll", n))
                  = Cardinality(Observed(n, RunningLabels))
            /\ \A i \in EntriesOf(log, "sleep_poll", n) : log[i].what = "pool_interval"
            /\ \A i \in Observed(n, TerminalLabels) :
                  i + 2 <= Len(log) => log[i + 2].kind # "sleep_poll"

---------------------------------------------------------------------------
(* Reach of the quota handler *)

\* the client calls made after the index is built
CycleCalls == SubmitCalls \cup StatusCalls \cup FetchCalls

\* C30: in OpenAPI.batch_request_and_wait, whichever of the upload, the job
\* creation, a status query or the fetch raises the APIError with the quota
\* text, the progress message and one sleep of pool_interval follow, then
\* the operation is at the top of its loop and next builds the index of a
\* new attempt, and no later call is made for the job of the attempt left;
\* an APIError without the quota text raised by any of these calls is the
\* last entry of the log and is the exception the operation has raised.
C30_QuotaHandlerCoversCycle ==
    api = "OpenAPI" =>
        \A i \in CallsOf(CycleCalls) :
            /\ log[i + 1].what = "APIError(quota)" =>
                  /\ i + 3 <= Len(log)
                  /\ log[i + 2].kind = "print"
                  /\ log[i + 3] = Ev("sleep_backoff", "pool_interval", AttemptAt(i))
                  /\ i + 3 = Len(log) => (pc = "index" /\ raised = None)
                  /\ i + 3 < Len(log) =>
                        log[i + 4] = Ev("read", "read_batch_file", AttemptAt(i) + 1)
                  /\ \A j \in CallsOf(StatusCalls \cup FetchCalls) :
                        j > i => log[j].n > AttemptAt(i)
            /\ log[i + 1].what = "APIError" =>
                  /\ i + 1 = Len(log)
                  /\ pc = "raised"
                  /\ raised = Some(ClientError("APIError"))

\* C30 witness: the fetch of the first attempt's artifact was rejected for
\* quota, and the second attempt has built its index and created its job.
C30_Witness ==
    /\ api = "OpenAPI"
    /\ attempt = 2
    /\ pc = "poll"
    /\ \E i \in CallsOf(FetchCalls) : log[i].n = 1 /\ log[i + 1].what = "APIError(quota)"

====
